---- MODULE Spec2Model ----
(***************************************************************************)
(* A model of the CPU rasterizer: the Framebuffer (framebuffer.rs), the    *)
(* triangle rasterizer (triangle.rs) and the noise / colour utilities of   *)
(* the shading library (shader.rs).                                        *)
(*                                                                         *)
(* f32 values are modelled by exact rationals with the IEEE special        *)
(* values: <<n, d>> with d > 0 and gcd(n, d) = 1 is the finite value n/d,  *)
(* <<1, 0>> is +infinity, <<-1, 0>> is -infinity and <<0, 0>> is NaN.      *)
(* <<s, -e>> with s = 1 or -1 and 31 <= e <= 127 is the finite value       *)
(* s * 2^e, a power of two beyond the integers of the model; the sums and  *)
(* products of such a value that are not again a power of two, zero or an  *)
(* infinity are not defined.  The conversion of an integer to f32 rounds   *)
(* to 24 significant bits; the rounding of the arithmetic is not modelled, *)
(* and zero carries no sign (1/0 = +infinity).                             *)
(***************************************************************************)
EXTENDS Integers, Sequences, FiniteSets, TLC

VARIABLES
    width, height,          \* Framebuffer.width, Framebuffer.height
    color_buffer,           \* Framebuffer.color_buffer, row-major, one colour per pixel
    z_buffer,               \* Framebuffer.z_buffer, row-major, one f32 per pixel
    background_color,       \* Framebuffer.background_color
    current_color,          \* Framebuffer.current_color
    panicked,               \* whether a call has panicked (index out of range)
    op,                     \* history: the last call and its arguments
    pre_color, pre_z,       \* history: both rasters as they were before the last call
    steps,                  \* history: number of calls made so far
    fb2,                    \* a second framebuffer, where two runs are compared
    result,                 \* the value returned by the last call of a pure function
    main                    \* main(): its place in the frame loop and its locals

vars == <<width, height, color_buffer, z_buffer, background_color, current_color,
          panicked, op, pre_color, pre_z, steps, fb2, result, main>>

(***************************************************************************)
(* f32 arithmetic                                                          *)
(***************************************************************************)
Abs(n) == IF n < 0 THEN -n ELSE n

Sgn(n) == IF n < 0 THEN -1 ELSE IF n > 0 THEN 1 ELSE 0

RECURSIVE Gcd(_, _)
Gcd(a, b) == IF b = 0 THEN a ELSE Gcd(b, a % b)

\* the finite value n/d (d # 0) in lowest terms
Q(n, d) ==
    LET g == Gcd(Abs(n), Abs(d))
        s == IF d < 0 THEN -1 ELSE 1
    IN  <<s * (n \div g), s * (d \div g)>>

PInf == <<1, 0>>
NInf == <<-1, 0>>
NaN == <<0, 0>>
Zero == <<0, 1>>
One == <<1, 1>>
Half == <<1, 2>>
Two == <<2, 1>>

IsNaN(a) == a[2] = 0 /\ a[1] = 0
IsFinite(a) == a[2] # 0

\* a finite value held as n/d, a power of two held by its exponent
IsRatio(a) == a[2] > 0
IsHuge(a) == a[2] < 0

RECURSIVE Pow2(_)
Pow2(e) == IF e = 0 THEN 1 ELSE 2 * Pow2(e - 1)

\* the f32 value s * 2^e (s = 1 or -1, e >= -30): f32::MAX < 2^128, and
\* 2^31 is the first power of two held by its exponent
Scaled(s, e) ==
    IF e >= 128 THEN <<s, 0>>
    ELSE IF e >= 31 THEN <<s, -e>>
    ELSE IF e >= 0 THEN <<s * Pow2(e), 1>>
    ELSE <<s, Pow2(-e)>>

RECURSIVE Log2(_)
Log2(n) == IF n <= 1 THEN 0 ELSE 1 + Log2(n \div 2)

\* a is s * 2^e for some e
IsPow2(a) ==
    \/ IsHuge(a)
    \/ IsRatio(a) /\ a[1] # 0 /\ Pow2(Log2(Abs(a[1]))) = Abs(a[1]) /\ Pow2(Log2(a[2])) = a[2]

\* that e
Exp2(a) == IF IsHuge(a) THEN -a[2] ELSE Log2(Abs(a[1])) - Log2(a[2])

\* the integer i, of magnitude above 2^24, rounded to the 24 significant bits
\* of an f32: to the nearest multiple of s = 2^(Log2(|i|) - 23), ties to the
\* even multiple
RoundF32(i, s) ==
    IF 2 * (Abs(i) % s) > s \/ (2 * (Abs(i) % s) = s /\ (Abs(i) \div s) % 2 = 1)
    THEN (IF (Abs(i) \div s) + 1 = 16777216 /\ s = 128
          THEN Scaled(Sgn(i), 31)
          ELSE <<Sgn(i) * ((Abs(i) \div s) + 1) * s, 1>>)
    ELSE <<Sgn(i) * (Abs(i) \div s) * s, 1>>

\* i32 -> f32 and u32 -> f32 (`as f32`): exact up to 2^24, rounded above
F(i) ==
    IF -16777216 <= i /\ i <= 16777216 THEN <<i, 1>>
    ELSE RoundF32(i, Pow2(Log2(Abs(i)) - 23))

FNeg(a) == <<-a[1], a[2]>>

FAdd(a, b) ==
    IF a[2] > 0 /\ b[2] > 0
    THEN LET g == Gcd(a[2], b[2])
         IN  Q(a[1] * (b[2] \div g) + b[1] * (a[2] \div g), a[2] * (b[2] \div g))
    ELSE IF IsNaN(a) \/ IsNaN(b) THEN NaN
    ELSE IF a[2] = 0 /\ b[2] = 0 THEN (IF a[1] = b[1] THEN a ELSE NaN)
    ELSE IF a[2] = 0 THEN a
    ELSE IF b[2] = 0 THEN b
    ELSE CASE a = Zero -> b
           [] b = Zero -> a
           [] IsHuge(a) /\ IsHuge(b) /\ a[2] = b[2] /\ a[1] = -b[1] -> Zero
           [] IsHuge(a) /\ a = b -> Scaled(a[1], Exp2(a) + 1)

FSub(a, b) == FAdd(a, FNeg(b))

FMul(a, b) ==
    IF a[2] > 0 /\ b[2] > 0
    THEN LET g1 == Gcd(Abs(a[1]), b[2])
             g2 == Gcd(Abs(b[1]), a[2])
         IN  <<(a[1] \div g1) * (b[1] \div g2), (a[2] \div g2) * (b[2] \div g1)>>
    ELSE IF IsNaN(a) \/ IsNaN(b) THEN NaN
    ELSE IF a[2] = 0 \/ b[2] = 0
    THEN (IF Sgn(a[1]) * Sgn(b[1]) = 0 THEN NaN ELSE <<Sgn(a[1]) * Sgn(b[1]), 0>>)
    ELSE CASE a = Zero \/ b = Zero -> Zero
           [] IsPow2(a) /\ IsPow2(b) -> Scaled(Sgn(a[1]) * Sgn(b[1]), Exp2(a) + Exp2(b))

\* 1.0 / a
FInv(a) ==
    CASE a[2] > 0 -> (IF a[1] = 0 THEN PInf
                      ELSE IF a[1] > 0 THEN <<a[2], a[1]>> ELSE <<-a[2], -a[1]>>)
      [] a[2] = 0 -> (IF IsNaN(a) THEN NaN ELSE Zero)

FDiv(a, b) == FMul(a, FInv(b))

\* n1/d1 < n2/d2 for d1, d2 > 0, without leaving the 32-bit integers
RECURSIVE CmpLt(_, _, _, _)
CmpLt(n1, d1, n2, d2) ==
    IF Abs(n1) < 32768 /\ d1 < 32768 /\ Abs(n2) < 32768 /\ d2 < 32768
    THEN n1 * d2 < n2 * d1
    ELSE LET f1 == n1 \div d1
             f2 == n2 \div d2
             r1 == n1 % d1
             r2 == n2 % d2
         IN  IF f1 # f2 THEN f1 < f2
             ELSE IF r2 = 0 THEN FALSE
             ELSE IF r1 = 0 THEN TRUE
             ELSE CmpLt(d2, r2, d1, r1)

\* the relational operators of f32: every comparison with NaN is false
FLt(a, b) ==
    IF a[2] > 0 /\ b[2] > 0 THEN CmpLt(a[1], a[2], b[1], b[2])
    ELSE IF IsNaN(a) \/ IsNaN(b) THEN FALSE
    ELSE IF a[2] = 0 \/ b[2] = 0 THEN a # b /\ (a = NInf \/ b = PInf)
    ELSE IF IsRatio(a) THEN b[1] > 0
    ELSE IF IsRatio(b) THEN a[1] < 0
    ELSE IF a[1] # b[1] THEN a[1] < b[1]
    ELSE IF a[1] > 0 THEN Exp2(a) < Exp2(b) ELSE Exp2(b) < Exp2(a)

FLe(a, b) == ~IsNaN(a) /\ ~IsNaN(b) /\ ~FLt(b, a)
FGt(a, b) == FLt(b, a)
FGe(a, b) == FLe(b, a)

\* f32::min, f32::max: a NaN operand is ignored
FMin(a, b) == IF IsNaN(a) THEN b ELSE IF IsNaN(b) THEN a ELSE IF FLt(b, a) THEN b ELSE a
FMax(a, b) == IF IsNaN(a) THEN b ELSE IF IsNaN(b) THEN a ELSE IF FLt(a, b) THEN b ELSE a

\* f32::abs
FAbs(a) == <<Abs(a[1]), a[2]>>

\* f32::clamp(lo, hi): NaN stays NaN
FClamp(a, lo, hi) == IF IsNaN(a) THEN NaN ELSE IF FLt(a, lo) THEN lo ELSE IF FGt(a, hi) THEN hi ELSE a

\* f32::floor: a power of two of 2^31 or more is an integer
FFloor(a) == IF a[2] > 0 THEN <<a[1] \div a[2], 1>> ELSE a

I32Max == 2147483647
I32Min == -2147483647 - 1

\* `as i32`: truncation toward zero, saturating, NaN to 0
AsI32(a) ==
    IF a[2] > 0 THEN (IF a[1] >= 0 THEN a[1] \div a[2] ELSE -((-a[1]) \div a[2]))
    ELSE IF a[1] > 0 THEN I32Max ELSE IF a[1] < 0 THEN I32Min ELSE 0

\* `as u8`: truncation toward zero, saturating to 0..255, NaN to 0
AsU8(a) ==
    IF a[2] > 0
    THEN (IF a[1] < 0 THEN 0 ELSE IF a[1] \div a[2] > 255 THEN 255 ELSE a[1] \div a[2])
    ELSE IF a[1] > 0 THEN 255 ELSE 0

(***************************************************************************)
(* Vectors and colours                                                     *)
(***************************************************************************)
\* Vector3::new(x, y, z); a Vector3 is <<x, y, z>>, a Vector2 is <<x, y>>
Vector3(x, y, z) == <<x, y, z>>
Vector2(x, y) == <<x, y>>

\* Vector3::cross
Cross(a, b) ==
    <<FSub(FMul(a[2], b[3]), FMul(a[3], b[2])),
      FSub(FMul(a[3], b[1]), FMul(a[1], b[3])),
      FSub(FMul(a[1], b[2]), FMul(a[2], b[1]))>>

Lcm(a, b) == (a \div Gcd(a, b)) * b

\* Vector3::normalized: v * (1 / length), with length 0 replaced by 1.  The
\* length is a square root, so the unit vector is represented by the
\* primitive integer vector of the same direction (v scaled by a positive
\* number); a NaN component makes the length NaN, an infinite one makes
\* 1/length zero.
Normalized(v) ==
    IF IsRatio(v[1]) /\ IsRatio(v[2]) /\ IsRatio(v[3])
    THEN LET m == Lcm(Lcm(v[1][2], v[2][2]), v[3][2])
             a == v[1][1] * (m \div v[1][2])
             b == v[2][1] * (m \div v[2][2])
             c == v[3][1] * (m \div v[3][2])
             g == Gcd(Gcd(Abs(a), Abs(b)), Abs(c))
         IN  IF g = 0 THEN v ELSE <<<<a \div g, 1>>, <<b \div g, 1>>, <<c \div g, 1>>>>
    ELSE CASE IsNaN(v[1]) \/ IsNaN(v[2]) \/ IsNaN(v[3]) -> <<NaN, NaN, NaN>>
           [] ~IsHuge(v[1]) /\ ~IsHuge(v[2]) /\ ~IsHuge(v[3])
                -> <<FMul(v[1], Zero), FMul(v[2], Zero), FMul(v[3], Zero)>>

Zero3 == <<Zero, Zero, Zero>>

\* Color::new(r, g, b, a): a literal colour
Color(r, g, b, a) ==
    [fn |-> "rgba", rgba |-> <<r, g, b, a>>, pos |-> Zero3, normal |-> Zero3, time |-> Zero]

WHITE == Color(255, 255, 255, 255)
BLACK == Color(0, 0, 0, 255)

\* the material functions are pure functions of (pos, normal, time); the
\* colour one returns is kept as the application itself
Shaded(f, pos, normal, time) ==
    [fn |-> f, rgba |-> <<0, 0, 0, 255>>, pos |-> pos, normal |-> normal, time |-> time]

roca(pos, normal, time) == Shaded("roca", pos, normal, time)
gas(pos, normal, time) == Shaded("gas", pos, normal, time)
cristal(pos, normal, time) == Shaded("cristal", pos, normal, time)
lava(pos, normal, time) == Shaded("lava", pos, normal, time)
hielo(pos, normal, time) == Shaded("hielo", pos, normal, time)

ShaderType == {"Rocky", "Gas", "Crystal", "Lava", "Ice"}

(***************************************************************************)
(* Noise and colour utilities of the shading library                       *)
(***************************************************************************)
\* the low 16 bits of an i32 (two's complement)
Low16(n) == n % 65536

\* the low 16 bits of a wrapping product, from the low 16 bits of its factors
MulLow16(a, b) == ((a * (b % 256)) + ((a * (b \div 256)) % 256) * 256) % 65536

\* `^` on the low n bits
RECURSIVE Xor(_, _, _)
Xor(a, b, n) == IF n = 0 THEN 0 ELSE ((a + b) % 2) + 2 * Xor(a \div 2, b \div 2, n - 1)

\* fn hash_to_float: only the low 16 bits of the wrapping arithmetic survive
\* the mask
hash_to_float(x, y) ==
    LET mixed == Xor(MulLow16(Low16(x), Low16(374761393)),
                     MulLow16(Low16(y), Low16(668265263)), 16)
    IN  FDiv(F((mixed + Low16(1274126177)) % 65536), F(65535))

\* fn fade
fade(t) == FMul(FMul(FMul(t, t), t), FAdd(FMul(t, FSub(FMul(t, F(6)), F(15))), F(10)))

\* fn lerp_f32
lerp_f32(a, b, t) == FAdd(a, FMul(FSub(b, a), t))

\* `xi + 1` on i32, as the release build computes it (wrapping)
WrappingInc(i) == IF i = I32Max THEN I32Min ELSE i + 1

\* fn noise2d.  `xi + 1` and `yi + 1` overflow when the coordinate's floor
\* saturates to i32::MAX: the debug build panics there, the release build
\* wraps.
noise2d(x, y, build) ==
    LET xi == AsI32(FFloor(x))
        yi == AsI32(FFloor(y))
        xf == FSub(x, FFloor(x))
        yf == FSub(y, FFloor(y))
        v00 == hash_to_float(xi, yi)
        v10 == hash_to_float(WrappingInc(xi), yi)
        v01 == hash_to_float(xi, WrappingInc(yi))
        v11 == hash_to_float(WrappingInc(xi), WrappingInc(yi))
    IN  IF build = "debug" /\ (xi = I32Max \/ yi = I32Max)
        THEN [panic |-> TRUE, value |-> NaN]
        ELSE [panic |-> FALSE,
              value |-> FSub(FMul(lerp_f32(lerp_f32(v00, v10, fade(xf)),
                                           lerp_f32(v01, v11, fade(xf)), fade(yf)), Two),
                             One)]

\* the loop of fbm_noise, n octaves from the accumulators acc on
RECURSIVE Octaves(_, _, _, _, _)
Octaves(x, y, n, acc, build) ==
    IF n = 0 THEN acc
    ELSE LET nz == noise2d(FMul(x, acc.freq), FMul(y, acc.freq), build)
         IN  IF nz.panic THEN [acc EXCEPT !.panic = TRUE]
             ELSE Octaves(x, y, n - 1,
                          [sum |-> FAdd(acc.sum, FMul(nz.value, acc.amp)),
                           maxv |-> FAdd(acc.maxv, acc.amp),
                           amp |-> FMul(acc.amp, Half),
                           freq |-> FMul(acc.freq, Two),
                           panic |-> FALSE],
                          build)

\* fn fbm_noise
fbm_noise(x, y, oct, build) ==
    LET r == Octaves(x, y, oct,
                     [sum |-> Zero, maxv |-> Zero, amp |-> One, freq |-> One, panic |-> FALSE],
                     build)
    IN  IF r.panic THEN [panic |-> TRUE, value |-> NaN]
        ELSE [panic |-> FALSE, value |-> FMul(FAdd(FDiv(r.sum, r.maxv), One), Half)]

\* blend_colors with the two weights exchanged
blend_colors_swapped(base, top, alpha) ==
    LET a == FClamp(alpha, Zero, One)
        ch(k) == AsU8(FAdd(FMul(F(base.rgba[k]), a), FMul(F(top.rgba[k]), FSub(One, a))))
    IN  Color(ch(1), ch(2), ch(3), 255)

\* fn blend_colors
blend_colors(base, top, alpha) ==
    LET a == FClamp(alpha, Zero, One)
        ch(k) == AsU8(FAdd(FMul(F(base.rgba[k]), FSub(One, a)), FMul(F(top.rgba[k]), a)))
    IN  Color(ch(1), ch(2), ch(3), 255)

(***************************************************************************)
(* Framebuffer                                                             *)
(***************************************************************************)
\* a framebuffer value: both rasters, and whether an index went out of range
Fb(c, z, p) == [color |-> c, z |-> z, panic |-> p]

\* vec![f32::INFINITY; (width * height) as usize]
NewZBuffer(w, h) == [i \in 1..(w * h) |-> PInf]

\* Image::gen_image_color / Image::clear_background
FillImage(w, h, color) == [i \in 1..(w * h) |-> color]

\* Image::draw_pixel(x, y, color) on a w-wide image
DrawPixel(img, w, x, y, color) == [img EXCEPT ![y * w + x + 1] = color]

\* clear without the refill of z_buffer
clear_color_only(fb, w, h, background) ==
    [fb EXCEPT !.color = FillImage(w, h, background)]

\* Framebuffer::clear
clear(fb, w, h, background) ==
    Fb(FillImage(w, h, background), [i \in 1..Len(fb.z) |-> PInf], fb.panic)

\* the range test with `<=` for `<` on the right edge
InRangeInclusive(w, h, x, y) == x >= 0 /\ y >= 0 /\ x <= w /\ y < h

\* x >= 0 && y >= 0 && x < width as i32 && y < height as i32
InRange(w, h, x, y) == x >= 0 /\ y >= 0 /\ x < w /\ y < h

\* the index of (x, y) in z_buffer
ZIndex(w, x, y) == y * w + x

\* Framebuffer::set_pixel_with_color
set_pixel_with_color(fb, w, h, x, y, color) ==
    IF InRange(w, h, x, y)
    THEN [fb EXCEPT !.color = DrawPixel(fb.color, w, x, y, color)]
    ELSE fb

\* Framebuffer::set_pixel
set_pixel(fb, w, h, x, y, cur) ==
    IF InRange(w, h, x, y)
    THEN [fb EXCEPT !.color = DrawPixel(fb.color, w, x, y, cur)]
    ELSE fb

\* set_pixel_depth without its depth test
set_pixel_depth_untested(fb, w, h, x, y, depth, cur) ==
    IF InRange(w, h, x, y)
    THEN [fb EXCEPT !.z[ZIndex(w, x, y) + 1] = depth,
                    !.color = DrawPixel(fb.color, w, x, y, cur)]
    ELSE fb

\* set_pixel_depth with `<=` for `<`
set_pixel_depth_le(fb, w, h, x, y, depth, cur) ==
    IF InRange(w, h, x, y) /\ FLe(depth, fb.z[ZIndex(w, x, y) + 1])
    THEN [fb EXCEPT !.z[ZIndex(w, x, y) + 1] = depth,
                    !.color = DrawPixel(fb.color, w, x, y, cur)]
    ELSE fb

\* Framebuffer::set_pixel_depth
set_pixel_depth(fb, w, h, x, y, depth, cur) ==
    IF InRange(w, h, x, y)
    THEN LET idx == ZIndex(w, x, y)
         IN  IF idx + 1 > Len(fb.z) THEN [fb EXCEPT !.panic = TRUE]
             ELSE IF FLt(depth, fb.z[idx + 1])
             THEN [fb EXCEPT !.z[idx + 1] = depth,
                             !.color = DrawPixel(fb.color, w, x, y, cur)]
             ELSE fb
    ELSE fb

(***************************************************************************)
(* Rasterizer                                                              *)
(***************************************************************************)
\* the constant added to the view depth in project
ProjK == <<3, 1>>

\* fn project
project(v, w, h, scale) ==
    LET fov == FInv(FAdd(v[3], ProjK))
        x == FAdd(FDiv(w, Two), FDiv(FMul(FMul(FMul(v[1], scale), fov), w), Two))
        y == FSub(FDiv(h, Two), FDiv(FMul(FMul(FMul(v[2], scale), fov), h), Two))
    IN  Vector2(x, y)

\* the guard added to a vertex depth before it is inverted.  The source has
\* 1e-6; the model keeps a small positive guard whose products stay inside
\* the 32-bit integers.
ZGuard == <<1, 64>>

\* the coverage tolerance EPSILON
EPSILON == <<-1, 10000>>

\* the threshold of the degenerate-triangle test
DenomMin == <<1, 1000000>>

\* the face normal
FaceNormal(v0, v1, v2) ==
    LET edge1 == Vector3(FSub(v1[1], v0[1]), FSub(v1[2], v0[2]), FSub(v1[3], v0[3]))
        edge2 == Vector3(FSub(v2[1], v0[1]), FSub(v2[2], v0[2]), FSub(v2[3], v0[3]))
    IN  Normalized(Cross(edge1, edge2))

\* the culling test with `>` for `>=`
CulledStrict(normal) == FGt(normal[3], Zero)

\* the culling test with the opposite sign convention
CulledTowardPlusZ(normal) == FLe(normal[3], Zero)

\* backface culling: `if normal.z >= 0.0 { return; }`
Culled(normal) == FGe(normal[3], Zero)

\* the edge-function denominator
Denom(p0, p1, p2) ==
    FAdd(FMul(FSub(p1[2], p2[2]), FSub(p0[1], p2[1])),
         FMul(FSub(p2[1], p1[1]), FSub(p0[2], p2[2])))

\* `if denom.abs() < 1e-6 { return; }`
Degenerate(denom) == FLt(FAbs(denom), DenomMin)

\* the barycentric weights of the sample point (px, py)
W0(p0, p1, p2, denom, px, py) ==
    FDiv(FAdd(FMul(FSub(p1[2], p2[2]), FSub(px, p2[1])),
              FMul(FSub(p2[1], p1[1]), FSub(py, p2[2]))), denom)

\* W1 with p1 where the source has p0
W1OfP1(p0, p1, p2, denom, px, py) ==
    FDiv(FAdd(FMul(FSub(p2[2], p1[2]), FSub(px, p2[1])),
              FMul(FSub(p1[1], p2[1]), FSub(py, p2[2]))), denom)

W1(p0, p1, p2, denom, px, py) ==
    FDiv(FAdd(FMul(FSub(p2[2], p0[2]), FSub(px, p2[1])),
              FMul(FSub(p0[1], p2[1]), FSub(py, p2[2]))), denom)

W2(w0, w1) == FSub(FSub(One, w0), w1)

\* the coverage test
Covered(w0, w1, w2) == FGe(w0, EPSILON) /\ FGe(w1, EPSILON) /\ FGe(w2, EPSILON)

\* everything draw_filled_triangle computes before its pixel loops, given
\* the projected vertices, the face normal and the denominator
SetupRecord(v0, v1, v2, fw, fh, p0, p1, p2, normal, denom) ==
    [p0 |-> p0, p1 |-> p1, p2 |-> p2, normal |-> normal,
     culled |-> Culled(normal),
     min_x |-> AsI32(FMax(FMin(FMin(p0[1], p1[1]), p2[1]), Zero)),
     max_x |-> AsI32(FMin(FMax(FMax(p0[1], p1[1]), p2[1]), FSub(fw, One))),
     min_y |-> AsI32(FMax(FMin(FMin(p0[2], p1[2]), p2[2]), Zero)),
     max_y |-> AsI32(FMin(FMax(FMax(p0[2], p1[2]), p2[2]), FSub(fh, One))),
     denom |-> denom,
     degenerate |-> Degenerate(denom),
     iz0 |-> FInv(FAdd(v0[3], ZGuard)),
     iz1 |-> FInv(FAdd(v1[3], ZGuard)),
     iz2 |-> FInv(FAdd(v2[3], ZGuard))]

\* the same, given the projected vertices
SetupProjected(v0, v1, v2, fw, fh, p0, p1, p2) ==
    SetupRecord(v0, v1, v2, fw, fh, p0, p1, p2, FaceNormal(v0, v1, v2), Denom(p0, p1, p2))

\* everything draw_filled_triangle computes before its pixel loops
Setup(v0, v1, v2, w, h) ==
    SetupProjected(v0, v1, v2, F(w), F(h),
                   project(v0, F(w), F(h), One),
                   project(v1, F(w), F(h), One),
                   project(v2, F(w), F(h), One))

\* the interpolated inverse depth iz
InvZ(s, w0, w1, w2) == FAdd(FAdd(FMul(w0, s.iz0), FMul(w1, s.iz1)), FMul(w2, s.iz2))

\* component k of the interpolated position
PosAt(v0, v1, v2, s, w0, w1, w2, iz, k) ==
    FDiv(FAdd(FAdd(FMul(FMul(w0, v0[k]), s.iz0), FMul(FMul(w1, v1[k]), s.iz1)),
              FMul(FMul(w2, v2[k]), s.iz2)), iz)

\* the body of the pixel loops up to the depth test, given the weights and iz
FragmentRecord(v0, v1, v2, s, w0, w1, w2, iz) ==
    [w0 |-> w0, w1 |-> w1, w2 |-> w2,
     covered |-> Covered(w0, w1, w2),
     depth |-> FInv(iz),
     pos |-> Vector3(PosAt(v0, v1, v2, s, w0, w1, w2, iz, 1),
                     PosAt(v0, v1, v2, s, w0, w1, w2, iz, 2),
                     PosAt(v0, v1, v2, s, w0, w1, w2, iz, 3))]

\* the same, given the three weights
FragmentWeighted(v0, v1, v2, s, w0, w1, w2) ==
    FragmentRecord(v0, v1, v2, s, w0, w1, w2, InvZ(s, w0, w1, w2))

\* the same, given w0 and w1
FragmentOf(v0, v1, v2, s, w0, w1) == FragmentWeighted(v0, v1, v2, s, w0, w1, W2(w0, w1))

\* the body of the pixel loops up to the depth test, at the centre of pixel
\* (x, y): the weights, the coverage test, the fragment depth and the
\* interpolated position
Fragment(v0, v1, v2, s, x, y) ==
    FragmentOf(v0, v1, v2, s,
               W0(s.p0, s.p1, s.p2, s.denom, FAdd(F(x), Half), FAdd(F(y), Half)),
               W1(s.p0, s.p1, s.p2, s.denom, FAdd(F(x), Half), FAdd(F(y), Half)))

\* `match shader_type`
Dispatch(shader_type, pos, normal, time) ==
    CASE shader_type = "Rocky" -> roca(pos, normal, time)
      [] shader_type = "Gas" -> gas(pos, normal, time)
      [] shader_type = "Crystal" -> cristal(pos, normal, time)
      [] shader_type = "Lava" -> lava(pos, normal, time)
      [] shader_type = "Ice" -> hielo(pos, normal, time)

\* Pixel without the depth test
PixelUntested(fb, w, h, f, normal, shader_type, time, x, y) ==
    IF fb.panic \/ ~f.covered THEN fb
    ELSE set_pixel_with_color([fb EXCEPT !.z[ZIndex(w, x, y) + 1] = f.depth], w, h, x, y,
                              Dispatch(shader_type, f.pos, normal, time))

\* Pixel with `<=` for `<` in the depth test
PixelLe(fb, w, h, f, normal, shader_type, time, x, y) ==
    IF fb.panic \/ ~f.covered THEN fb
    ELSE IF FLe(f.depth, fb.z[ZIndex(w, x, y) + 1])
    THEN set_pixel_with_color([fb EXCEPT !.z[ZIndex(w, x, y) + 1] = f.depth], w, h, x, y,
                              Dispatch(shader_type, f.pos, normal, time))
    ELSE fb

\* Pixel with the colour written at (y, x)
PixelTransposed(fb, w, h, f, normal, shader_type, time, x, y) ==
    IF fb.panic \/ ~f.covered THEN fb
    ELSE IF FLt(f.depth, fb.z[ZIndex(w, x, y) + 1])
    THEN set_pixel_with_color([fb EXCEPT !.z[ZIndex(w, x, y) + 1] = f.depth], w, h, y, x,
                              Dispatch(shader_type, f.pos, normal, time))
    ELSE fb

\* Pixel without the store into z_buffer
PixelKeepsDepth(fb, w, h, f, normal, shader_type, time, x, y) ==
    IF fb.panic \/ ~f.covered THEN fb
    ELSE IF FLt(f.depth, fb.z[ZIndex(w, x, y) + 1])
    THEN set_pixel_with_color(fb, w, h, x, y, Dispatch(shader_type, f.pos, normal, time))
    ELSE fb

\* Pixel with both tests written as negations: `!(w < EPSILON)` for
\* `w >= EPSILON` and `!(depth >= stored)` for `depth < stored`
PixelNegatedTests(fb, w, h, f, normal, shader_type, time, x, y) ==
    IF fb.panic \/ FLt(f.w0, EPSILON) \/ FLt(f.w1, EPSILON) \/ FLt(f.w2, EPSILON) THEN fb
    ELSE IF FGe(f.depth, fb.z[ZIndex(w, x, y) + 1]) THEN fb
    ELSE set_pixel_with_color([fb EXCEPT !.z[ZIndex(w, x, y) + 1] = f.depth], w, h, x, y,
                              Dispatch(shader_type, f.pos, normal, time))

\* one iteration of the pixel loops, at (x, y), given its fragment
Pixel(fb, w, h, f, normal, shader_type, time, x, y) ==
    IF fb.panic \/ ~f.covered THEN fb
    ELSE LET idx == ZIndex(w, x, y)
         IN  IF idx < 0 \/ idx + 1 > Len(fb.z) THEN [fb EXCEPT !.panic = TRUE]
             ELSE IF FLt(f.depth, fb.z[idx + 1])
             THEN set_pixel_with_color([fb EXCEPT !.z[idx + 1] = f.depth], w, h, x, y,
                                       Dispatch(shader_type, f.pos, normal, time))
             ELSE fb

\* `for x in min_x..=max_x`, from x on; a panic ends the call
RECURSIVE ScanRow(_, _, _, _)
ScanRow(fb, d, x, y) ==
    IF fb.panic \/ x > d.s.max_x THEN fb
    ELSE ScanRow(Pixel(fb, d.w, d.h, Fragment(d.v0, d.v1, d.v2, d.s, x, y),
                       d.s.normal, d.shader_type, d.time, x, y),
                 d, x + 1, y)

\* `for y in min_y..=max_y`, from y on
RECURSIVE ScanRows(_, _, _)
ScanRows(fb, d, y) ==
    IF fb.panic \/ y > d.s.max_y THEN fb
    ELSE ScanRows(ScanRow(fb, d, d.s.min_x, y), d, y + 1)

\* Rasterize without the culling test
RasterizeUnculled(fb, d) ==
    IF d.s.degenerate THEN fb
    ELSE ScanRows(fb, d, d.s.min_y)

\* draw_filled_triangle from the culling test on; d holds the arguments of
\* the call and what Setup computed from them
Rasterize(fb, d) ==
    IF d.s.culled THEN fb
    ELSE IF d.s.degenerate THEN fb
    ELSE ScanRows(fb, d, d.s.min_y)

\* fn draw_filled_triangle
draw_filled_triangle(fb, w, h, v0, v1, v2, shader_type, time) ==
    Rasterize(fb, [v0 |-> v0, v1 |-> v1, v2 |-> v2, s |-> Setup(v0, v1, v2, w, h),
                   w |-> w, h |-> h, shader_type |-> shader_type, time |-> time])

(***************************************************************************)
(* The inputs of the calls                                                 *)
(***************************************************************************)
Width == 4
Height == 3
MaxSteps == 2

V(x, y, z) == Vector3(F(x), F(y), F(z))

\* triangles: a near flat one (z = -1), a flat one at z = 0, two slanted ones
\* that cross, a back-facing one, a front-facing one whose projection is a
\* segment, and a small far one (z = 5) behind the second slanted one
TriangleInputs ==
    { <<V(-2, -2, -1), V(0, 2, -1), V(2, -2, -1)>>,
      <<V(0, -3, 0), V(-3, 3, 0), V(3, 3, 0)>>,
      <<V(-4, -4, 1), V(-4, 4, 1), V(6, 0, 3)>>,
      <<V(4, -4, 1), V(-6, 0, 3), V(4, 4, 1)>>,
      <<V(-2, -2, -1), V(2, -2, -1), V(0, 2, -1)>>,
      <<V(2, -2, -1), V(0, -3, 0), V(-2, -2, -1)>>,
      <<V(8, -8, 5), V(0, 0, 5), V(8, 8, 5)>> }

\* vertices for the calls that take any triangle: a grid at two depths, and
\* two vertices that project onto pixel centres
VertexInputs ==
    {V(x, y, z) : x \in {-2, 0, 2}, y \in {-2, 2}, z \in {-1, 1}}
        \cup {V(1, 0, 1), V(-1, 0, 1)}

\* vertices for the weights: some project onto pixel centres, two onto
\* the same point
WeightVertexInputs ==
    {V(1, 0, 1), V(-1, 0, 1), V(-2, -2, -1), V(2, 2, -1), V(0, 2, -1), V(3, 3, 0), V(0, 4, 1)}

ShaderInputs == {"Rocky", "Gas"}
TimeInputs == {Zero}
PixelInputs ==
    {<<-1, 0>>, <<0, -1>>, <<1, 1>>, <<Width - 1, Height - 1>>, <<Width, 0>>, <<0, Height>>}
DepthInputs == {<<-1, 2>>, ZGuard, NaN}
ColorInputs == {Color(200, 30, 30, 255)}

NoTriangle == <<Zero3, Zero3, Zero3>>

\* main() is not running
NoMain == [pc |-> "none"]

Call(name) ==
    [name |-> name, x |-> 0, y |-> 0, depth |-> Zero, color |-> BLACK,
     tri |-> NoTriangle, shader_type |-> "Rocky", time |-> Zero,
     tri2 |-> NoTriangle, shader_type2 |-> "Rocky"]

(***************************************************************************)
(* The calls                                                               *)
(***************************************************************************)
\* Framebuffer::new(Width, Height, BLACK)
Init ==
    /\ width = Width
    /\ height = Height
    /\ color_buffer = FillImage(Width, Height, BLACK)
    /\ z_buffer = NewZBuffer(Width, Height)
    /\ background_color = BLACK
    /\ current_color = WHITE
    /\ panicked = FALSE
    /\ op = Call("new")
    /\ pre_color = FillImage(Width, Height, BLACK)
    /\ pre_z = NewZBuffer(Width, Height)
    /\ steps = 0
    /\ fb2 = Fb(<<>>, <<>>, FALSE)
    /\ result = [name |-> "none"]
    /\ main = NoMain

Enabled == steps < MaxSteps /\ ~panicked

\* what every call does to the history variables
Record(call) ==
    /\ op' = call
    /\ pre_color' = color_buffer
    /\ pre_z' = z_buffer
    /\ steps' = steps + 1
    /\ UNCHANGED <<fb2, result, main>>

Store(fb) ==
    /\ color_buffer' = fb.color
    /\ z_buffer' = fb.z
    /\ panicked' = fb.panic

Current == Fb(color_buffer, z_buffer, panicked)

\* Framebuffer::clear
Clear ==
    /\ Enabled
    /\ Store(clear(Current, width, height, background_color))
    /\ Record(Call("clear"))
    /\ UNCHANGED <<width, height, background_color, current_color>>

\* Framebuffer::set_current_color
SetCurrentColor ==
    /\ Enabled
    /\ \E c \in ColorInputs :
         /\ current_color' = c
         /\ Record([Call("set_current_color") EXCEPT !.color = c])
    /\ UNCHANGED <<width, height, color_buffer, z_buffer, background_color, panicked>>

\* Framebuffer::set_background_color
SetBackgroundColor ==
    /\ Enabled
    /\ \E c \in ColorInputs :
         /\ background_color' = c
         /\ Record([Call("set_background_color") EXCEPT !.color = c])
    /\ UNCHANGED <<width, height, color_buffer, z_buffer, current_color, panicked>>

\* Framebuffer::set_pixel
SetPixel ==
    /\ Enabled
    /\ \E xy \in PixelInputs :
         /\ Store(set_pixel(Current, width, height, xy[1], xy[2], current_color))
         /\ Record([Call("set_pixel") EXCEPT !.x = xy[1], !.y = xy[2]])
    /\ UNCHANGED <<width, height, background_color, current_color>>

\* Framebuffer::set_pixel_with_color
SetPixelWithColor ==
    /\ Enabled
    /\ \E xy \in PixelInputs, c \in ColorInputs :
         /\ Store(set_pixel_with_color(Current, width, height, xy[1], xy[2], c))
         /\ Record([Call("set_pixel_with_color") EXCEPT !.x = xy[1], !.y = xy[2], !.color = c])
    /\ UNCHANGED <<width, height, background_color, current_color>>

\* Framebuffer::set_pixel_depth
SetPixelDepth ==
    /\ Enabled
    /\ \E xy \in PixelInputs, depth \in DepthInputs :
         /\ Store(set_pixel_depth(Current, width, height, xy[1], xy[2], depth, current_color))
         /\ Record([Call("set_pixel_depth") EXCEPT !.x = xy[1], !.y = xy[2], !.depth = depth])
    /\ UNCHANGED <<width, height, background_color, current_color>>

\* draw_filled_triangle
DrawFilledTriangle ==
    /\ Enabled
    /\ \E t \in TriangleInputs, sh \in ShaderInputs, time \in TimeInputs :
         /\ Store(draw_filled_triangle(Current, width, height, t[1], t[2], t[3], sh, time))
         /\ Record([Call("draw_filled_triangle") EXCEPT !.tri = t, !.shader_type = sh,
                                                        !.time = time])
    /\ UNCHANGED <<width, height, background_color, current_color>>

Next ==
    \/ Clear
    \/ SetCurrentColor
    \/ SetBackgroundColor
    \/ SetPixel
    \/ SetPixelWithColor
    \/ SetPixelDepth
    \/ DrawFilledTriangle

Spec == Init /\ [][Next]_vars

(***************************************************************************)
(* Properties of the framebuffer and of one draw call (Spec)               *)
(***************************************************************************)
\* the place of pixel (x, y) in both rasters
At(x, y) == y * width + x + 1

Xs == 0..(width - 1)
Ys == 0..(height - 1)

IsDraw == op.name = "draw_filled_triangle"

\* what the last draw call computed for its triangle and for pixel (x, y)
OpSetup == Setup(op.tri[1], op.tri[2], op.tri[3], width, height)
OpFragment(x, y) == Fragment(op.tri[1], op.tri[2], op.tri[3], OpSetup, x, y)

InBBox(s, x, y) == s.min_x <= x /\ x <= s.max_x /\ s.min_y <= y /\ y <= s.max_y

\* the last draw call reached pixel (x, y) and found it covered
Covers(x, y) ==
    /\ ~OpSetup.culled
    /\ ~OpSetup.degenerate
    /\ InBBox(OpSetup, x, y)
    /\ OpFragment(x, y).covered

\* C1: between two clear() calls no draw_filled_triangle, set_pixel,
\* set_pixel_with_color or set_pixel_depth call increases the depth stored
\* for any pixel.
C1_DepthNeverIncreases ==
    op.name \in {"draw_filled_triangle", "set_pixel", "set_pixel_with_color", "set_pixel_depth"}
        => \A i \in DOMAIN z_buffer : FLe(z_buffer[i], pre_z[i])

\* a draw call has replaced a finite stored depth by a smaller one
C1_Witness ==
    /\ IsDraw
    /\ \E i \in DOMAIN z_buffer : pre_z[i] # PInf /\ FLt(z_buffer[i], pre_z[i])

\* every fragment of the last draw call is farther than what is stored
FartherEverywhere ==
    \A x \in Xs, y \in Ys : Covers(x, y) => FGt(OpFragment(x, y).depth, pre_z[At(x, y)])

\* C4: a triangle whose fragment depth is greater than the stored depth at
\* every pixel it covers leaves the colour raster and the depth raster
\* unchanged.
C4_FartherLeavesUnchanged ==
    (IsDraw /\ FartherEverywhere) => (color_buffer = pre_color /\ z_buffer = pre_z)

\* a triangle was drawn over pixels an earlier triangle had shaded, all of
\* them nearer
C4_Witness ==
    /\ IsDraw
    /\ FartherEverywhere
    /\ \E x \in Xs, y \in Ys : Covers(x, y) /\ pre_color[At(x, y)].fn # "rgba"

\* C5: a draw call changes neither the colour nor the depth of a pixel
\* outside the clamped bounding box of the projected vertices.
C5_OutsideBBoxUnchanged ==
    IsDraw => \A x \in Xs, y \in Ys :
                 ~InBBox(OpSetup, x, y)
                     => /\ color_buffer[At(x, y)] = pre_color[At(x, y)]
                        /\ z_buffer[At(x, y)] = pre_z[At(x, y)]

\* a draw call wrote inside a bounding box that leaves pixels outside
C5_Witness ==
    /\ IsDraw
    /\ \E x \in Xs, y \in Ys : ~InBBox(OpSetup, x, y)
    /\ \E x \in Xs, y \in Ys : InBBox(OpSetup, x, y) /\ z_buffer[At(x, y)] # pre_z[At(x, y)]

\* C11: immediately after Framebuffer::new and immediately after every
\* clear(), each of the width * height pixels holds the current background
\* colour and each of the width * height depth entries is +infinity, whatever
\* was drawn before.
C11_ClearedToBackground ==
    op.name \in {"new", "clear"}
        => /\ Len(color_buffer) = width * height
           /\ Len(z_buffer) = width * height
           /\ \A i \in 1..(width * height) :
                 color_buffer[i] = background_color /\ z_buffer[i] = PInf

\* clear() ran over a raster in which a draw call had stored a finite depth
\* and a shaded colour
C11_Witness ==
    /\ op.name = "clear"
    /\ \E i \in DOMAIN pre_z : pre_z[i] # PInf /\ pre_color[i] # background_color
    /\ \A i \in DOMAIN z_buffer : z_buffer[i] = PInf

\* (x, y) lies outside the raster
OutOfRange(x, y) == x < 0 \/ y < 0 \/ x >= width \/ y >= height

\* C12: a set_pixel, set_pixel_with_color or set_pixel_depth call with x < 0,
\* y < 0, x >= width or y >= height returns normally and leaves the whole
\* colour raster and the whole depth raster unchanged.
C12_OutOfRangeIgnored ==
    (/\ op.name \in {"set_pixel", "set_pixel_with_color", "set_pixel_depth"}
     /\ OutOfRange(op.x, op.y))
        => (~panicked /\ color_buffer = pre_color /\ z_buffer = pre_z)

\* set_pixel_depth was called one column right of the raster, with a depth
\* that would have passed the test, after another call had written
C12_Witness ==
    /\ op.name = "set_pixel_depth"
    /\ op.x = width
    /\ op.y = 0
    /\ FLt(op.depth, PInf)
    /\ pre_color # FillImage(width, height, background_color)
    /\ color_buffer = pre_color

\* C10: for in-range (x, y), set_pixel_depth writes the colour and the depth
\* of that pixel if and only if depth < the stored depth, both together, and
\* changes no other pixel.
C10_DepthTestedWrite ==
    (op.name = "set_pixel_depth" /\ InRange(width, height, op.x, op.y))
        => LET i == At(op.x, op.y)
           IN  /\ FLt(op.depth, pre_z[i])
                    => (z_buffer[i] = op.depth /\ color_buffer[i] = current_color)
               /\ ~FLt(op.depth, pre_z[i])
                    => (z_buffer[i] = pre_z[i] /\ color_buffer[i] = pre_color[i])
               /\ \A j \in DOMAIN z_buffer :
                    j # i => (z_buffer[j] = pre_z[j] /\ color_buffer[j] = pre_color[j])

\* set_pixel_depth was called with the depth already stored, over a pixel
\* of another colour, and wrote nothing
C10_Witness ==
    /\ op.name = "set_pixel_depth"
    /\ InRange(width, height, op.x, op.y)
    /\ op.depth = pre_z[At(op.x, op.y)]
    /\ pre_color[At(op.x, op.y)] # current_color
    /\ color_buffer[At(op.x, op.y)] = pre_color[At(op.x, op.y)]

\* C14: draw_filled_triangle leaves the colour raster and the depth raster
\* unchanged whenever the face normal has z >= 0 (back-facing) or the
\* edge-function denominator has magnitude < 1e-6.
C14_SilentSkip ==
    (IsDraw /\ (FGe(OpSetup.normal[3], Zero) \/ FLt(FAbs(OpSetup.denom), DenomMin)))
        => (~panicked /\ color_buffer = pre_color /\ z_buffer = pre_z)

\* a front-facing triangle whose projection has no area was drawn over a
\* drawn raster and wrote nothing
C14_Witness ==
    /\ IsDraw
    /\ FLt(OpSetup.normal[3], Zero)
    /\ FLt(FAbs(OpSetup.denom), DenomMin)
    /\ \E i \in DOMAIN pre_z : pre_z[i] # PInf
    /\ color_buffer = pre_color
    /\ z_buffer = pre_z

\* the depth-tested write of the fragment of the last draw call at (x, y)
WriteFragment(fb, f, normal, x, y) ==
    set_pixel_depth(fb, width, height, x, y, f.depth,
                    Dispatch(op.shader_type, f.pos, normal, op.time))

\* one depth-tested write for each pixel the last draw call visited and
\* found covered, in the order of the pixel loops, from pixel k on
RECURSIVE WriteCovered(_, _, _)
WriteCovered(fb, s, k) ==
    IF fb.panic \/ k >= width * height THEN fb
    ELSE WriteCovered(
             IF ~s.culled /\ ~s.degenerate /\ InBBox(s, k % width, k \div width)
                 /\ OpFragment(k % width, k \div width).covered
             THEN WriteFragment(fb, OpFragment(k % width, k \div width), s.normal,
                                k % width, k \div width)
             ELSE fb,
             s, k + 1)

DrawBothOrders ==
    /\ steps = 0
    /\ \E a \in TriangleInputs, b \in TriangleInputs,
          sa \in ShaderInputs, sb \in ShaderInputs, time \in TimeInputs :
         /\ Store(draw_filled_triangle(
                    draw_filled_triangle(Current, width, height, a[1], a[2], a[3], sa, time),
                    width, height, b[1], b[2], b[3], sb, time))
         /\ fb2' = draw_filled_triangle(
                    draw_filled_triangle(Current, width, height, b[1], b[2], b[3], sb, time),
                    width, height, a[1], a[2], a[3], sa, time)
         /\ op' = [Call("draw_both_orders") EXCEPT !.tri = a, !.shader_type = sa,
                                                   !.tri2 = b, !.shader_type2 = sb,
                                                   !.time = time]
    /\ pre_color' = color_buffer
    /\ pre_z' = z_buffer
    /\ steps' = 2
    /\ UNCHANGED <<width, height, background_color, current_color, result, main>>

NextOrder == DrawBothOrders

SpecOrder == Init /\ [][NextOrder]_vars

TriSetup(t) == Setup(t[1], t[2], t[3], width, height)
TriFragment(t, x, y) == Fragment(t[1], t[2], t[3], TriSetup(t), x, y)

\* a draw call of triangle t reaches pixel (x, y) and finds it covered
TriCovers(t, x, y) ==
    /\ ~TriSetup(t).culled
    /\ ~TriSetup(t).degenerate
    /\ InBBox(TriSetup(t), x, y)
    /\ TriFragment(t, x, y).covered

\* the colour triangle t contributes at pixel (x, y)
Contribution(t, sh, time, x, y) ==
    Dispatch(sh, TriFragment(t, x, y).pos, TriSetup(t).normal, time)

IsBoth == op.name = "draw_both_orders"

Shared(x, y) == TriCovers(op.tri, x, y) /\ TriCovers(op.tri2, x, y)

DepthA(x, y) == TriFragment(op.tri, x, y).depth
DepthB(x, y) == TriFragment(op.tri2, x, y).depth
ColorA(x, y) == Contribution(op.tri, op.shader_type, op.time, x, y)
ColorB(x, y) == Contribution(op.tri2, op.shader_type2, op.time, x, y)

\* the result at (x, y) is that of the nearer triangle
NearerWins(x, y) ==
    /\ FLt(DepthA(x, y), DepthB(x, y))
         => (z_buffer[At(x, y)] = DepthA(x, y) /\ color_buffer[At(x, y)] = ColorA(x, y))
    /\ FLt(DepthB(x, y), DepthA(x, y))
         => (z_buffer[At(x, y)] = DepthB(x, y) /\ color_buffer[At(x, y)] = ColorB(x, y))

\* C2 as stated: at every pixel two front-facing triangles both cover, both
\* orders give the same colour and the same depth, those of the nearer one.
C2_OrderIndependent ==
    IsBoth => \A x \in Xs, y \in Ys :
                 Shared(x, y)
                     => /\ color_buffer[At(x, y)] = fb2.color[At(x, y)]
                        /\ z_buffer[At(x, y)] = fb2.z[At(x, y)]
                        /\ NearerWins(x, y)

\* C2 as amended: at every pixel both triangles cover, both orders give the
\* same depth, the smaller of the two; where the two fragment depths differ
\* both orders give the same colour, that of the nearer triangle; where they
\* are equal each order keeps the colour of the triangle it drew first.
C2_OrderIndependentUnlessTie ==
    IsBoth => \A x \in Xs, y \in Ys :
                 Shared(x, y)
                     => /\ z_buffer[At(x, y)] = fb2.z[At(x, y)]
                        /\ z_buffer[At(x, y)] = FMin(DepthA(x, y), DepthB(x, y))
                        /\ NearerWins(x, y)
                        /\ DepthA(x, y) # DepthB(x, y)
                             => color_buffer[At(x, y)] = fb2.color[At(x, y)]
                        /\ DepthA(x, y) = DepthB(x, y)
                             => /\ color_buffer[At(x, y)] = ColorA(x, y)
                                /\ fb2.color[At(x, y)] = ColorB(x, y)

\* two triangles that cross: the first is nearer at one shared pixel, the
\* second at another
C2_Witness ==
    /\ IsBoth
    /\ \E x \in Xs, y \in Ys : Shared(x, y) /\ FLt(DepthA(x, y), DepthB(x, y))
    /\ \E x \in Xs, y \in Ys : Shared(x, y) /\ FLt(DepthB(x, y), DepthA(x, y))

(***************************************************************************)
(* A triangle and its vertex-reversed twin (SpecTwin)                      *)
(***************************************************************************)
\* draw_filled_triangle(v0, v1, v2) into the framebuffer and
\* draw_filled_triangle(v0, v2, v1) into a second one, both as
\* Framebuffer::new left them
DrawTwins ==
    /\ steps = 0
    /\ \E v0 \in VertexInputs, v1 \in VertexInputs, v2 \in VertexInputs,
          sh \in {"Gas"}, time \in TimeInputs :
         /\ Store(draw_filled_triangle(Current, width, height, v0, v1, v2, sh, time))
         /\ fb2' = draw_filled_triangle(Current, width, height, v0, v2, v1, sh, time)
         /\ op' = [Call("draw_twins") EXCEPT !.tri = <<v0, v1, v2>>, !.tri2 = <<v0, v2, v1>>,
                                             !.shader_type = sh, !.shader_type2 = sh,
                                             !.time = time]
    /\ pre_color' = color_buffer
    /\ pre_z' = z_buffer
    /\ steps' = 1
    /\ UNCHANGED <<width, height, background_color, current_color, result, main>>

NextTwin == DrawTwins

SpecTwin == Init /\ [][NextTwin]_vars

IsTwins == op.name = "draw_twins"

PassesCulling(t) == ~TriSetup(t).culled

Drawn == color_buffer # pre_color \/ z_buffer # pre_z
TwinDrawn == fb2.color # pre_color \/ fb2.z # pre_z

\* C6: of a triangle and its vertex-reversed twin at most one passes the
\* culling test, which is normal.z < 0; the two are never both drawn; and
\* with normal.z = 0 both are culled.
C6_TwinsNeverBothVisible ==
    IsTwins =>
        /\ ~(PassesCulling(op.tri) /\ PassesCulling(op.tri2))
        /\ PassesCulling(op.tri) <=> FLt(TriSetup(op.tri).normal[3], Zero)
        /\ PassesCulling(op.tri2) <=> FLt(TriSetup(op.tri2).normal[3], Zero)
        /\ ~(Drawn /\ TwinDrawn)
        /\ Drawn => PassesCulling(op.tri)
        /\ TwinDrawn => PassesCulling(op.tri2)
        /\ TriSetup(op.tri).normal[3] = Zero
             => (~PassesCulling(op.tri) /\ ~PassesCulling(op.tri2) /\ ~Drawn /\ ~TwinDrawn)

\* a triangle was drawn and its twin was culled
C6_Witness ==
    /\ IsTwins
    /\ Drawn
    /\ ~PassesCulling(op.tri2)
    /\ ~TwinDrawn

(***************************************************************************)
(* The barycentric weights (SpecBary)                                      *)
(***************************************************************************)
\* the weights of the sample point (px, py), given w0 and w1
WeightsRecord(k, px, py, w0, w1) ==
    [name |-> "weights", k |-> k, px |-> px, py |-> py,
     w0 |-> w0, w1 |-> w1, w2 |-> W2(w0, w1),
     covered |-> Covered(w0, w1, W2(w0, w1))]

\* the weights of the sample point (px, py) of the triangle s
WeightsAt(s, k, px, py) ==
    WeightsRecord(k, px, py,
                  W0(s.p0, s.p1, s.p2, s.denom, px, py),
                  W1(s.p0, s.p1, s.p2, s.denom, px, py))

\* the sample points of the triangle s: the centre of pixel (x, y), as in
\* the pixel loops (k = 0), or the projected vertex p_k itself
SampleX(s, k, x) == CASE k = 0 -> FAdd(F(x), Half) [] k = 1 -> s.p0[1]
                      [] k = 2 -> s.p1[1] [] k = 3 -> s.p2[1]
SampleY(s, k, y) == CASE k = 0 -> FAdd(F(y), Half) [] k = 1 -> s.p0[2]
                      [] k = 2 -> s.p1[2] [] k = 3 -> s.p2[2]

\* the weights of a sample point of a triangle s that passes the degenerate
\* test
WeightsOf(t, s) ==
    /\ ~s.degenerate
    /\ \E x \in 0..(width - 1), y \in 0..(height - 1), k \in 0..3 :
         /\ k # 0 => (x = 0 /\ y = 0)
         /\ op' = [Call("weights") EXCEPT !.tri = t, !.x = x, !.y = y]
         /\ result' = WeightsAt(s, k, SampleX(s, k, x), SampleY(s, k, y))

Weights ==
    /\ steps = 0
    /\ \E v0 \in WeightVertexInputs, v1 \in WeightVertexInputs, v2 \in WeightVertexInputs :
         WeightsOf(<<v0, v1, v2>>, Setup(v0, v1, v2, width, height))
    /\ steps' = 1
    /\ UNCHANGED <<width, height, color_buffer, z_buffer, background_color, current_color,
                   panicked, pre_color, pre_z, fb2, main>>

NextBary == Weights

SpecBary == Init /\ [][NextBary]_vars

IsWeights == result.name = "weights"

\* the sample point is the projected vertex p
SampleIs(p) == result.px = p[1] /\ result.py = p[2]

RefTriangle == <<V(-1, -1, 2), V(1, -1, 2), V(0, 1, 2)>>

\* the vertex orders that keep the winding of the reference triangle, and
\* those that reverse it
SameWinding == {<<1, 2, 3>>, <<2, 3, 1>>, <<3, 1, 2>>}
ReversedWinding == {<<1, 3, 2>>, <<3, 2, 1>>, <<2, 1, 3>>}

Reordered(t, o) == <<t[o[1]], t[o[2]], t[o[3]]>>

RefTimeInputs == {Zero, Half, One, Two}

\* Framebuffer::new(100, 100, Color::BLACK)
InitRef ==
    /\ width = 100
    /\ height = 100
    /\ color_buffer = FillImage(100, 100, BLACK)
    /\ z_buffer = NewZBuffer(100, 100)
    /\ background_color = BLACK
    /\ current_color = WHITE
    /\ panicked = FALSE
    /\ op = Call("new")
    /\ pre_color = FillImage(100, 100, BLACK)
    /\ pre_z = NewZBuffer(100, 100)
    /\ steps = 0
    /\ fb2 = Fb(<<>>, <<>>, FALSE)
    /\ result = [name |-> "none"]
    /\ main = NoMain

\* draw_filled_triangle of the reference triangle, its vertices in any order,
\* into the framebuffer as Framebuffer::new left it
DrawReference ==
    /\ steps = 0
    /\ \E o \in SameWinding \cup ReversedWinding, sh \in ShaderType, time \in RefTimeInputs :
         LET t == Reordered(RefTriangle, o)
         IN  /\ Store(draw_filled_triangle(Current, width, height, t[1], t[2], t[3], sh, time))
             /\ op' = [Call("draw_filled_triangle") EXCEPT !.tri = t, !.shader_type = sh,
                                                            !.time = time]
    /\ pre_color' = color_buffer
    /\ pre_z' = z_buffer
    /\ steps' = 1
    /\ UNCHANGED <<width, height, background_color, current_color, fb2, result, main>>

NextRef == DrawReference

SpecRef == InitRef /\ [][NextRef]_vars

\* the last call drew the reference triangle as the scenario gives it
IsReference == IsDraw /\ op.tri = RefTriangle /\ op.shader_type = "Rocky" /\ op.time = Zero

\* the last call drew it with v1 and v2 exchanged
IsReversedReference ==
    IsDraw /\ op.tri = Reordered(RefTriangle, <<1, 3, 2>>)
           /\ op.shader_type = "Rocky" /\ op.time = Zero

\* the last call wrote pixel (x, y)
Written(x, y) ==
    color_buffer[At(x, y)] # pre_color[At(x, y)] \/ z_buffer[At(x, y)] # pre_z[At(x, y)]

\* the edge function of the directed edge a -> b at point c, on integers
Edge(a, b, c) == (b[1] - a[1]) * (c[2] - a[2]) - (b[2] - a[2]) * (c[1] - a[1])

\* a projected point, scaled to integers by m
ScaledTo(p, m) == <<p[1][1] * (m \div p[1][2]), p[2][1] * (m \div p[2][2])>>

\* the projected triangle of the last call on an integer grid of m units to
\* the pixel, m even
Silhouette ==
    LET s == OpSetup
        m == 2 * Lcm(Lcm(Lcm(s.p0[1][2], s.p0[2][2]), Lcm(s.p1[1][2], s.p1[2][2])),
                     Lcm(s.p2[1][2], s.p2[2][2]))
    IN  [m |-> m, a |-> ScaledTo(s.p0, m), b |-> ScaledTo(s.p1, m), c |-> ScaledTo(s.p2, m)]

\* the centre of pixel (x, y) lies in the triangle t, edges included
InSilhouette(t, x, y) ==
    LET q == <<(2 * x + 1) * (t.m \div 2), (2 * y + 1) * (t.m \div 2)>>
        e0 == Edge(t.a, t.b, q)
        e1 == Edge(t.b, t.c, q)
        e2 == Edge(t.c, t.a, q)
    IN  (e0 >= 0 /\ e1 >= 0 /\ e2 >= 0) \/ (e0 <= 0 /\ e1 <= 0 /\ e2 <= 0)

\* at least one pixel written, every written pixel nearer than +infinity,
\* every pixel outside the silhouette still background and +infinity
DrawnWithinSilhouette ==
    LET t == Silhouette
    IN  /\ \E x \in Xs, y \in Ys : Written(x, y)
        /\ \A x \in Xs, y \in Ys :
             /\ Written(x, y) => FLt(z_buffer[At(x, y)], PInf)
             /\ ~InSilhouette(t, x, y)
                  => (color_buffer[At(x, y)] = background_color /\ z_buffer[At(x, y)] = PInf)

\* C3 as stated: the reference triangle, Rocky, time 0, drawn into a fresh
\* 100 x 100 black framebuffer writes at least one pixel, every written
\* pixel has depth < +infinity, and every pixel outside the projected
\* silhouette keeps the background colour and depth +infinity.
C3_ReferenceDrawn == IsReference => DrawnWithinSilhouette

\* C3 as amended: the reference triangle in the vertex order given (or any
\* order of the same winding) is culled and writes no pixel; in a reversed
\* vertex order it writes at least one pixel, every written pixel has depth
\* < +infinity, and every pixel outside the projected silhouette keeps the
\* background colour and depth +infinity.
C3_ReferenceCulledReversedDrawn ==
    IsDraw =>
        /\ (\E o \in SameWinding : op.tri = Reordered(RefTriangle, o))
             => /\ FGe(OpSetup.normal[3], Zero)
                /\ \A x \in Xs, y \in Ys :
                     ~Written(x, y) /\ color_buffer[At(x, y)] = background_color
                                    /\ z_buffer[At(x, y)] = PInf
        /\ (\E o \in ReversedWinding : op.tri = Reordered(RefTriangle, o))
             => DrawnWithinSilhouette

\* the reference triangle with v1 and v2 exchanged was drawn: the pixel at
\* the centre of the framebuffer is written, a corner of the bounding box
\* is not
C3_Witness ==
    /\ IsReversedReference
    /\ Written(50, 50)
    /\ color_buffer[At(50, 50)].fn = "roca"
    /\ InBBox(OpSetup, 40, 40)
    /\ ~InSilhouette(Silhouette, 40, 40)
    /\ ~Written(40, 40)

(***************************************************************************)
(* blend_colors (SpecBlend)                                                *)
(***************************************************************************)
BlendColorInputs ==
    { Color(0, 0, 0, 255), Color(255, 255, 255, 255), Color(200, 30, 30, 255),
      Color(10, 20, 30, 0), Color(1, 128, 254, 128), Color(255, 0, 77, 1) }

AlphaInputs == {Zero, One, Half, <<1, 4>>, <<-1, 1>>, Two, PInf, NInf, NaN}

\* blend_colors(base, top, alpha)
Blend ==
    /\ steps = 0
    /\ \E base \in BlendColorInputs, top \in BlendColorInputs, alpha \in AlphaInputs :
         result' = [name |-> "blend_colors", base |-> base, top |-> top, alpha |-> alpha,
                    out |-> blend_colors(base, top, alpha)]
    /\ steps' = 1
    /\ UNCHANGED <<width, height, color_buffer, z_buffer, background_color, current_color,
                   panicked, op, pre_color, pre_z, fb2, main>>

NextBlend == Blend

SpecBlend == Init /\ [][NextBlend]_vars

IsBlend == result.name = "blend_colors"

\* the red, green and blue channels of a colour
Rgb(c) == <<c.rgba[1], c.rgba[2], c.rgba[3]>>

\* C7 as stated: for all colours base and top, whatever their alpha
\* channels, blend_colors(base, top, 0) equals base and
\* blend_colors(base, top, 1) equals top.
C7_BlendEndpoints ==
    IsBlend =>
        /\ result.alpha = Zero => result.out = result.base
        /\ result.alpha = One => result.out = result.top

\* C7 as amended: blend_colors(base, top, 0) has the red, green and blue
\* channels of base and blend_colors(base, top, 1) those of top; the alpha
\* channel of the result is always 255, so the result equals base (top)
\* exactly when the alpha channel of base (top) is 255.
C7_BlendEndpointsOpaque ==
    IsBlend =>
        /\ result.out.rgba[4] = 255
        /\ result.alpha = Zero
             => /\ Rgb(result.out) = Rgb(result.base)
                /\ result.out = result.base <=> result.base.rgba[4] = 255
        /\ result.alpha = One
             => /\ Rgb(result.out) = Rgb(result.top)
                /\ result.out = result.top <=> result.top.rgba[4] = 255

\* a translucent base was blended with another colour at alpha 0: the
\* result has the channels of base and is opaque
C7_Witness ==
    /\ IsBlend
    /\ result.alpha = Zero
    /\ result.base.rgba[4] = 128
    /\ Rgb(result.top) # Rgb(result.base)
    /\ result.out = [result.base EXCEPT !.rgba[4] = 255]

(***************************************************************************)
(* fbm_noise (SpecFbm)                                                     *)
(***************************************************************************)
\* finite coordinates: on the lattice, half-way between lattice points, and
\* large powers of two (2^31, 2^100, 2^127)
FbmXInputs ==
    {Zero, Half, <<3, 2>>, <<-1, 2>>, F(5), F(-3), <<1, -31>>, <<1, -100>>, <<1, -127>>,
     <<-1, -127>>}
FbmYInputs == {Zero, Half, F(-7), <<1, -127>>}

\* whether arithmetic overflow is checked
BuildInputs == {"debug", "release"}

\* fbm_noise(x, y, oct)
Fbm ==
    /\ steps = 0
    /\ \E x \in FbmXInputs, y \in FbmYInputs, oct \in 1..8, build \in BuildInputs :
         LET r == fbm_noise(x, y, oct, build)
         IN  result' = [name |-> "fbm_noise", x |-> x, y |-> y, oct |-> oct, build |-> build,
                        panic |-> r.panic, value |-> r.value]
    /\ steps' = 1
    /\ UNCHANGED <<width, height, color_buffer, z_buffer, background_color, current_color,
                   panicked, op, pre_color, pre_z, fb2, main>>

NextFbm == Fbm

SpecFbm == Init /\ [][NextFbm]_vars

IsFbm == result.name = "fbm_noise"

\* C9: fbm_noise(x, y, oct) returns a value in [0, 1] for every oct in 1..8
\* and all finite x, y.
C9_FbmInUnitRange ==
    (IsFbm /\ IsFinite(result.x) /\ IsFinite(result.y) /\ result.oct \in 1..8)
        => /\ ~result.panic
           /\ FGe(result.value, Zero)
           /\ FLe(result.value, One)

(***************************************************************************)
(* Triangles with NaN coordinates (SpecNaN)                                *)
(***************************************************************************)
\* the triangles that get a NaN coordinate: the near flat one and a slanted one
NaNBaseInputs ==
    { <<V(-2, -2, -1), V(0, 2, -1), V(2, -2, -1)>>,
      <<V(-4, -4, 1), V(-4, 4, 1), V(6, 0, 3)>> }

\* triangle t with coordinate k of vertex j replaced by NaN
WithNaN(t, j, k) == [t EXCEPT ![j][k] = NaN]

\* every way to put one NaN into a base triangle, and a triangle of NaNs only
NaNTriangleInputs ==
    {WithNaN(t, j, k) : t \in NaNBaseInputs, j \in 1..3, k \in 1..3}
        \cup {<<Vector3(NaN, NaN, NaN), Vector3(NaN, NaN, NaN), Vector3(NaN, NaN, NaN)>>}

HasNaN(v) == IsNaN(v[1]) \/ IsNaN(v[2]) \/ IsNaN(v[3])

\* draw_filled_triangle with at least one NaN coordinate
DrawNaNTriangle ==
    /\ Enabled
    /\ \E t \in NaNTriangleInputs, sh \in ShaderInputs :
         /\ Store(draw_filled_triangle(Current, width, height, t[1], t[2], t[3], sh, Zero))
         /\ Record([Call("draw_filled_triangle") EXCEPT !.tri = t, !.shader_type = sh])
    /\ UNCHANGED <<width, height, background_color, current_color>>

NextNaN ==
    \/ DrawFilledTriangle
    \/ DrawNaNTriangle

SpecNaN == Init /\ [][NextNaN]_vars

IsNaNDraw == IsDraw /\ (HasNaN(op.tri[1]) \/ HasNaN(op.tri[2]) \/ HasNaN(op.tri[3]))

\* C13: if any coordinate of v0, v1 or v2 is NaN, draw_filled_triangle
\* returns normally and modifies neither a pixel colour nor a depth.
C13_NaNTriangleSkipped ==
    IsNaNDraw => (~panicked /\ color_buffer = pre_color /\ z_buffer = pre_z)

\* a triangle with a NaN coordinate passed the culling test and the
\* degenerate test, ran its pixel loops over a drawn raster and wrote nothing
C13_Witness ==
    /\ IsNaNDraw
    /\ ~OpSetup.culled
    /\ ~OpSetup.degenerate
    /\ \E x \in Xs, y \in Ys : InBBox(OpSetup, x, y)
    /\ \E i \in DOMAIN pre_z : pre_z[i] # PInf
    /\ color_buffer = pre_color
    /\ z_buffer = pre_z

(***************************************************************************)
(* The frame loop of main() (SpecMain)                                     *)
(***************************************************************************)
MaxFrames == 2

\* Color::new(5, 5, 15, 255), the background main() gives its framebuffer
FrameBackground == Color(5, 5, 15, 255)

\* `time += 0.016`
FrameTime == <<2, 125>>

\* the key 1-5 pressed in a frame, as the planet it selects; -1 is none
PlanetKeyInputs == {-1, 0, 1, 2, 3, 4}

\* the triangles of the planet as transform_model leaves them in a frame:
\* one facing the viewer, two that cross, one facing away
SceneInputs ==
    { << <<V(-2, -2, -1), V(0, 2, -1), V(2, -2, -1)>> >>,
      << <<V(-4, -4, 1), V(-4, 4, 1), V(6, 0, 3)>>, <<V(4, -4, 1), V(-6, 0, 3), V(4, 4, 1)>> >>,
      << <<V(-2, -2, -1), V(2, -2, -1), V(0, 2, -1)>> >> }

\* the triangles of the moon and of the rings
MoonScene == << <<V(8, -8, 5), V(0, 0, 5), V(8, 8, 5)>> >>
RingScene == << <<V(0, -3, 0), V(-3, 3, 0), V(3, 3, 0)>> >>

\* `let shader_type = match current_planet { .. }`
PlanetShader(current_planet) ==
    CASE current_planet = 0 -> "Rocky"
      [] current_planet = 1 -> "Gas"
      [] current_planet = 2 -> "Crystal"
      [] current_planet = 3 -> "Lava"
      [] OTHER -> "Ice"

\* the triangles of a sequence, each with the selector it is drawn with
DrawsOf(faces, shader_type) ==
    [i \in 1..Len(faces) |-> [tri |-> faces[i], shader_type |-> shader_type]]

\* the draw calls of one frame, in order: the planet, then the moon of
\* planet 0, then the rings of planet 1
FrameDraws(current_planet, faces) ==
    DrawsOf(faces, PlanetShader(current_planet))
        \o (IF current_planet = 0 THEN DrawsOf(MoonScene, "Ice") ELSE <<>>)
        \o (IF current_planet = 1 THEN DrawsOf(RingScene, "Crystal") ELSE <<>>)

\* main() up to its loop: Framebuffer::new(.., Color::new(5, 5, 15, 255))
InitMain ==
    /\ width = Width
    /\ height = Height
    /\ color_buffer = FillImage(Width, Height, FrameBackground)
    /\ z_buffer = NewZBuffer(Width, Height)
    /\ background_color = FrameBackground
    /\ current_color = WHITE
    /\ panicked = FALSE
    /\ op = Call("new")
    /\ pre_color = FillImage(Width, Height, FrameBackground)
    /\ pre_z = NewZBuffer(Width, Height)
    /\ steps = 0
    /\ fb2 = Fb(<<>>, <<>>, FALSE)
    /\ result = [name |-> "none"]
    /\ main = [pc |-> "loop", frame |-> 0, trace |-> <<>>, draws |-> <<>>, next |-> 1,
               current_planet |-> 0, time |-> Zero, texture |-> FALSE, capture |-> <<>>]

\* what a framebuffer call of main() does to the history variables
MainRecord(call) ==
    /\ op' = call
    /\ pre_color' = color_buffer
    /\ pre_z' = z_buffer
    /\ UNCHANGED <<steps, fb2, result>>

\* `while !window.window_should_close()`: the window closes, or a frame starts
MainLoopTest ==
    /\ main.pc = "loop"
    /\ \/ main' = [main EXCEPT !.pc = "exit"]
       \/ /\ main.frame < MaxFrames
          /\ main' = [main EXCEPT !.pc = "clear", !.frame = @ + 1, !.trace = <<>>,
                                  !.draws = <<>>, !.next = 1]
    /\ UNCHANGED <<width, height, color_buffer, z_buffer, background_color, current_color,
                   panicked, op, pre_color, pre_z, steps, fb2, result>>

\* `fb.clear(); time += 0.016;`
MainClear ==
    /\ main.pc = "clear"
    /\ Store(clear(Current, width, height, background_color))
    /\ MainRecord(Call("clear"))
    /\ main' = [main EXCEPT !.pc = "keys", !.trace = Append(@, "clear"),
                            !.time = FAdd(@, FrameTime)]
    /\ UNCHANGED <<width, height, background_color, current_color>>

\* the key handling: a planet key selects the planet, S exports the image
\* with render_to_file; then the model is transformed and its selector chosen
MainKeys ==
    /\ main.pc = "keys"
    /\ \E key \in PlanetKeyInputs, s_pressed \in BOOLEAN, faces \in SceneInputs :
         main' = [main EXCEPT
                    !.pc = "draw",
                    !.current_planet = IF key = -1 THEN @ ELSE key,
                    !.capture = IF s_pressed THEN color_buffer ELSE @,
                    !.trace = IF s_pressed THEN Append(@, "render_to_file") ELSE @,
                    !.draws = FrameDraws(IF key = -1 THEN main.current_planet ELSE key, faces)]
    /\ UNCHANGED <<width, height, color_buffer, z_buffer, background_color, current_color,
                   panicked, op, pre_color, pre_z, steps, fb2, result>>

\* the readback without waiting for the draw loops to end
MainReadbackEarly ==
    /\ main.pc = "draw"
    /\ \E loaded \in BOOLEAN :
         main' = [main EXCEPT
                    !.pc = "loop",
                    !.texture = @ \/ loaded,
                    !.trace = IF main.texture \/ loaded THEN Append(@, "image_data") ELSE @]
    /\ UNCHANGED <<width, height, color_buffer, z_buffer, background_color, current_color,
                   panicked, op, pre_color, pre_z, steps, fb2, result>>

\* the next triangle::draw_filled_triangle call of the three draw loops
MainDraw ==
    /\ main.pc = "draw"
    /\ main.next <= Len(main.draws)
    /\ ~panicked
    /\ Store(draw_filled_triangle(Current, width, height,
                                  main.draws[main.next].tri[1], main.draws[main.next].tri[2],
                                  main.draws[main.next].tri[3],
                                  main.draws[main.next].shader_type, main.time))
    /\ MainRecord([Call("draw_filled_triangle") EXCEPT
                      !.tri = main.draws[main.next].tri,
                      !.shader_type = main.draws[main.next].shader_type,
                      !.time = main.time])
    /\ main' = [main EXCEPT !.next = @ + 1, !.trace = Append(@, "draw_filled_triangle")]
    /\ UNCHANGED <<width, height, background_color, current_color>>

\* after the draw loops: init_texture if there is no texture yet (it may
\* fail), and with a texture the readback through image_data
MainReadback ==
    /\ main.pc = "draw"
    /\ main.next > Len(main.draws)
    /\ ~panicked
    /\ \E loaded \in BOOLEAN :
         main' = [main EXCEPT
                    !.pc = "loop",
                    !.texture = @ \/ loaded,
                    !.trace = IF main.texture \/ loaded THEN Append(@, "image_data") ELSE @]
    /\ UNCHANGED <<width, height, color_buffer, z_buffer, background_color, current_color,
                   panicked, op, pre_color, pre_z, steps, fb2, result>>

NextMain ==
    \/ MainLoopTest
    \/ MainClear
    \/ MainKeys
    \/ MainDraw
    \/ MainReadback

SpecMain == InitMain /\ [][NextMain]_vars

\* the places of event e in the trace of the current frame
Places(e) == {i \in 1..Len(main.trace) : main.trace[i] = e}

\* the current frame has run to its end
FrameDone == main.pc \in {"loop", "exit"} /\ main.frame > 0

\* C15: in every frame clear() runs exactly once and before every
\* draw_filled_triangle call of that frame, and the readback (image_data)
\* happens only after all draw calls of that frame have returned.
C15_FrameOrdering ==
    /\ Cardinality(Places("clear")) <= 1
    /\ \A i \in Places("draw_filled_triangle") : \E j \in Places("clear") : j < i
    /\ \A i \in Places("image_data") :
         /\ Cardinality(Places("draw_filled_triangle")) = Len(main.draws)
         /\ \A j \in Places("draw_filled_triangle") : j < i
    /\ FrameDone => Cardinality(Places("clear")) = 1

\* a frame with three draw calls and a capture was read back
C15_Witness ==
    /\ FrameDone
    /\ main.frame = 2
    /\ Cardinality(Places("draw_filled_triangle")) = 3
    /\ Places("render_to_file") # {}
    /\ Places("image_data") = {Len(main.trace)}
    /\ color_buffer # FillImage(width, height, background_color)

\* C19: when a capture is requested in a frame (S key), the image written by
\* render_to_file is exported after the triangles of the frame have been
\* drawn: it holds the rendered pixels of the frame and is not the freshly
\* cleared raster.
C19_CaptureHasRenderedPixels ==
    (/\ FrameDone
     /\ Places("render_to_file") # {}
     /\ color_buffer # FillImage(width, height, background_color))
        => /\ main.capture = color_buffer
           /\ main.capture # FillImage(width, height, background_color)
           /\ \A i \in Places("draw_filled_triangle") :
                \A j \in Places("render_to_file") : i < j

(***************************************************************************)
(* The material dispatch (SpecDispatch)                                    *)
(***************************************************************************)
\* the shader functions shader.rs defines: its `pub fn`s
ShadingLibrary == {"roca", "gas", "marciano", "panqueques", "arcoiris"}

\* draw_filled_triangle with any of the five selectors
DrawAnySelector ==
    /\ Enabled
    /\ \E t \in TriangleInputs, sh \in ShaderType, time \in TimeInputs :
         /\ Store(draw_filled_triangle(Current, width, height, t[1], t[2], t[3], sh, time))
         /\ Record([Call("draw_filled_triangle") EXCEPT !.tri = t, !.shader_type = sh,
                                                        !.time = time])
    /\ UNCHANGED <<width, height, background_color, current_color>>

NextDispatch == DrawAnySelector

SpecDispatch == Init /\ [][NextDispatch]_vars

\* the name of the function the `match` calls for a selector
DispatchedFn(shader_type) == Dispatch(shader_type, Zero3, Zero3, Zero).fn

\* C16: each of the five selectors Rocky, Gas, Crystal, Lava, Ice is
\* dispatched by draw_filled_triangle to exactly one shader function that the
\* shading library defines, and no two selectors to the same function.
C16_DispatchOneToOne ==
    IsDraw =>
        /\ \A i \in DOMAIN color_buffer :
             color_buffer[i] # pre_color[i]
                 => /\ color_buffer[i].fn = DispatchedFn(op.shader_type)
                    /\ color_buffer[i].fn \in ShadingLibrary
        /\ \A a \in ShaderType, b \in ShaderType :
             a # b => DispatchedFn(a) # DispatchedFn(b)

(***************************************************************************)
(* The pixels the loops of draw_filled_triangle visit (SpecBounds)         *)
(***************************************************************************)
\* framebuffer sizes with their triangles.  The small sizes, with width or
\* height 0, get the triangles of TriangleInputs, one far off the screen,
\* one with a vertex at z = -3 (an infinite projection), one with all three
\* there and one with a NaN; a raster 16777219 wide (high) and 1 high (wide)
\* gets a thin triangle that crosses its right (bottom) edge.
BoundsInputs ==
    ({<<0, 0>>, <<0, Height>>, <<Width, 0>>, <<1, 1>>, <<Width, Height>>,
      <<Width + 1, Height + 1>>}
        \X (TriangleInputs
              \cup { <<V(40, 40, -2), V(50, 60, -2), V(60, 40, -2)>>,
                     <<V(-2, -2, -1), V(0, 2, -3), V(2, -2, -1)>>,
                     <<V(-1, -1, -3), V(0, 1, -3), V(1, -1, -3)>>,
                     <<V(-2, -2, -1), Vector3(NaN, F(2), F(-1)), V(2, -2, -1)>> }))
        \cup { <<<<16777219, 1>>,
                 <<V(2, 1, -2), V(2, -1, -2), Vector3(<<4194303, 4194305>>, Zero, F(-2))>>>>,
               <<<<1, 16777219>>,
                 <<V(1, -2, -2), V(-1, -2, -2), Vector3(Zero, <<-4194303, 4194305>>, F(-2))>>>> }

\* one iteration of the pixel loops, at (x, y), up to the index into
\* z_buffer, which holds w * h entries: the index is computed, and checked,
\* for a covered pixel
VisitAt(w, h, t, x, y, covered) ==
    [name |-> "visit", w |-> w, h |-> h, tri |-> t, visited |-> TRUE, x |-> x, y |-> y,
     covered |-> covered, idx |-> ZIndex(w, x, y),
     panic |-> covered /\ (ZIndex(w, x, y) < 0 \/ ZIndex(w, x, y) + 1 > w * h)]

\* draw_filled_triangle on a w x h framebuffer, followed to any one pixel
\* its loops visit, or to its return if they visit none
VisitOf(w, h, t, s) ==
    IF s.culled \/ s.degenerate \/ s.min_x > s.max_x \/ s.min_y > s.max_y
    THEN result' = [name |-> "visit", w |-> w, h |-> h, tri |-> t, visited |-> FALSE,
                    x |-> 0, y |-> 0, covered |-> FALSE, idx |-> 0, panic |-> FALSE]
    ELSE \E x \in s.min_x..s.max_x, y \in s.min_y..s.max_y :
           result' = VisitAt(w, h, t, x, y,
                             WeightsAt(s, 0, FAdd(F(x), Half), FAdd(F(y), Half)).covered)

VisitPixels ==
    /\ steps = 0
    /\ \E i \in BoundsInputs :
         VisitOf(i[1][1], i[1][2], i[2], Setup(i[2][1], i[2][2], i[2][3], i[1][1], i[1][2]))
    /\ steps' = 1
    /\ UNCHANGED <<width, height, color_buffer, z_buffer, background_color, current_color,
                   panicked, op, pre_color, pre_z, fb2, main>>

NextBounds == VisitPixels

SpecBounds == Init /\ [][NextBounds]_vars

IsVisit == result.name = "visit" /\ result.visited

\* C18: for every framebuffer size (width or height 0 included) and every
\* triple of vertices, every (x, y) the pixel loops visit has 0 <= x < width
\* and 0 <= y < height, the index y * width + x is below width * height, and
\* draw_filled_triangle does not panic.
C18_InBoundsAccess ==
    IsVisit =>
        /\ 0 <= result.x /\ result.x < result.w
        /\ 0 <= result.y /\ result.y < result.h
        /\ result.idx < result.w * result.h
        /\ ~result.panic
====
